---- MODULE Spec2Model ----
(***************************************************************************)
(* Model of the two List<T> classes of brielov/list:                       *)
(*   part_000  the record-backed class (#struct keyed by number, #length)  *)
(*   part_001  the array-backed class (private readonly arr)               *)
(* A behaviour is a program that uses one of the two classes: it builds a  *)
(* list, calls a method on it, may bind the returned list and go on.       *)
(* Operators named P0_x model method x of part_000, P1_x method x of       *)
(* part_001.                                                               *)
(***************************************************************************)
EXTENDS Integers, Sequences, FiniteSets, TLC

\* ------------------------------------------------------------------------
\* Bounds of the model
\* ------------------------------------------------------------------------
\* longest list the program keeps bound to its variable
MaxLen == 2
\* element values are 0..MaxVal (0 is the falsy one)
MaxVal == 1
\* most items passed to of / splice in one call
MaxItems == 1
\* longest list built for the calls that reorder a list (move, sort)
MaxLong == 4
\* largest step passed to range
MaxStep == 3

\* ------------------------------------------------------------------------
\* Values
\* ------------------------------------------------------------------------
\* JavaScript's undefined: what a read of a missing key / a hole yields
Undef == -1
\* an argument that the caller left out
Omitted == 99

Val == 0..MaxVal

Impls == {"part_000", "part_001"}

Min(a, b) == IF a < b THEN a ELSE b

Max(a, b) == IF a > b THEN a ELSE b

\* if (item), if (!item): undefined and 0 are falsy
Truthy(v) == v # Undef /\ v # 0

\* the predicates handed to some / dropWhile / takeWhile: x => x === 0, and
\* the callbacks that return their item
Holds(predicate, v) == IF predicate = "isZero" THEN v = 0 ELSE Truthy(v)

\* the callbacks (prev) => next handed to updateAt / map
Fns == {"inc", "zero"}

Apply(f, v) ==
    IF v = Undef THEN Undef
    ELSE IF f = "inc" THEN (v + 1) % (MaxVal + 1)
    ELSE 0

\* the compareFn arguments of sort: none, (a, b) => a - b, (a, b) => b - a,
\* (a, b) => Math.abs(a) - Math.abs(b), and () => -1, which is not a
\* consistent comparator
Comparators == {"none", "asc", "desc", "byAbs", "alwaysLess"}

\* the comparators tried on the quicksort alone: those, () => 1, and a
\* non-transitive one that puts -2 before 2, 2 before 10 and 10 before -2
QuickComparators == Comparators \cup {"alwaysMore", "cyclic"}

Abs(v) == IF v < 0 THEN 0 - v ELSE v

\* compareFn(a, b) as a sign; an undefined operand makes the difference NaN,
\* which is neither below nor above 0 (sign 0 here)
Compare(compareFn, a, b) ==
    IF compareFn = "alwaysLess" THEN 0 - 1
    ELSE IF compareFn = "alwaysMore" THEN 1
    ELSE IF a = Undef \/ b = Undef THEN 0
    ELSE IF compareFn = "cyclic"
    THEN IF a = b THEN 0
         ELSE IF <<a, b>> \in {<<0 - 2, 2>>, <<2, 10>>, <<10, 0 - 2>>} THEN 0 - 1
         ELSE 1
    ELSE LET d == IF compareFn = "asc" THEN a - b
                  ELSE IF compareFn = "desc" THEN b - a
                  ELSE Abs(a) - Abs(b)
         IN  IF d < 0 THEN 0 - 1 ELSE IF d > 0 THEN 1 ELSE 0

RECURSIVE Digits(_)
\* the decimal digits of n >= 0 as character codes
Digits(n) == IF n < 10 THEN <<48 + n>> ELSE Append(Digits(n \div 10), 48 + (n % 10))

\* String(v) of an integer as character codes ("-" is 45)
NumberToString(v) == IF v < 0 THEN <<45>> \o Digits(0 - v) ELSE Digits(v)

RECURSIVE LexLess(_, _)
\* s < t for strings, code unit by code unit
LexLess(s, t) ==
    IF t = <<>> THEN FALSE
    ELSE IF s = <<>> THEN TRUE
    ELSE IF Head(s) # Head(t) THEN Head(s) < Head(t)
    ELSE LexLess(Tail(s), Tail(t))

\* ------------------------------------------------------------------------
\* Storage.  An object is [kind, elems, stray]:
\*   elems  the cells 0 .. length-1 (elems[k+1] is cell k)
\*   stray  the own keys outside 0 .. length-1 (a negative key written into
\*          #struct, or a negative property written onto an array)
\* ------------------------------------------------------------------------
NoStray == [k \in {} |-> Undef]

MkList(elems) == [kind |-> "List", elems |-> elems, stray |-> NoStray]

MkArray(elems) == [kind |-> "Array", elems |-> elems, stray |-> NoStray]

Size(this) == Len(this.elems)

\* this.#struct[k] and this.arr[k]
Read(this, k) ==
    IF k >= 0 /\ k < Len(this.elems) THEN this.elems[k + 1]
    ELSE IF k \in DOMAIN this.stray THEN this.stray[k]
    ELSE Undef

\* other.#struct[k] = v : the length is a separate field and does not move
StructSet(obj, k, v) ==
    IF k >= 0 /\ k < Len(obj.elems)
    THEN [obj EXCEPT !.elems[k + 1] = v]
    ELSE [obj EXCEPT !.stray = (k :> v) @@ obj.stray]

\* arr[k] = v : a key past the end grows the array (holes read as undefined),
\* a negative key becomes a property of the array
ArraySet(obj, k, v) ==
    IF k < 0 THEN [obj EXCEPT !.stray = (k :> v) @@ obj.stray]
    ELSE IF k < Len(obj.elems) THEN [obj EXCEPT !.elems[k + 1] = v]
    ELSE [obj EXCEPT !.elems =
              [i \in 1..(k + 1) |->
                  IF i <= Len(obj.elems) THEN obj.elems[i]
                  ELSE IF i = k + 1 THEN v ELSE Undef]]

\* ------------------------------------------------------------------------
\* What a call does: the receiver's storage after it, and what it returns
\* ------------------------------------------------------------------------
\* returns a newly built object
NewObj(this, obj) == [self |-> this, kind |-> "new", ret |-> obj, handed |-> FALSE]

\* return this
Same(this) == [self |-> this, kind |-> "this", ret |-> this, handed |-> FALSE]

\* returns an element or undefined
Scalar(this, v) == [self |-> this, kind |-> "value", ret |-> v, handed |-> FALSE]

\* throw new Error(message)
Throw(this) == [self |-> this, kind |-> "error", ret |-> Undef, handed |-> FALSE]

\* the call passed the receiver's own storage to code outside the class
Handing(res) == [res EXCEPT !.handed = TRUE]

RECURSIVE NativeSetKeepingLast(_)
\* a set that keeps the place of the last occurrence of a value
NativeSetKeepingLast(cells) ==
    IF cells = <<>> THEN <<>>
    ELSE LET rest == NativeSetKeepingLast(Tail(cells))
         IN  IF \E k \in 1..Len(rest) : rest[k] = Head(cells) THEN rest
             ELSE <<Head(cells)>> \o rest

RECURSIVE NativeSet(_)
\* new Set(iterable), as the sequence its iteration yields: the values in
\* the order of their first insertion
NativeSet(cells) ==
    IF cells = <<>> THEN <<>>
    ELSE LET n     == Len(cells)
             front == NativeSet(SubSeq(cells, 1, n - 1))
         IN  IF \E k \in 1..Len(front) : front[k] = cells[n] THEN front
             ELSE Append(front, cells[n])

\* ------------------------------------------------------------------------
\* part_000: the record-backed class
\* ------------------------------------------------------------------------
\* constructor(init): copies init[0 .. init.length-1] into a new #struct
P0_constructor(init) == MkList(init)

\* List.from(iter): new List(Array.from(iter)); the iterator of a list
\* yields #struct[0 .. #length-1]
P0_from(iter) == P0_constructor(iter.elems)

\* List.of(...items)
P0_of(items) == P0_constructor(items)

RECURSIVE P0_rangeLoop(_, _, _, _)
\* for (; from <= to; from += step) list.#struct[list.#length++] = from
P0_rangeLoop(cells, from, to, step) ==
    IF from <= to THEN P0_rangeLoop(Append(cells, from), from + step, to, step)
    ELSE cells

\* range with a step of 0 taken for a missing one (step || 1)
P0_rangeDefaulting(from, to, step) ==
    LET s == IF step = Omitted \/ step = 0 THEN 1 ELSE step
    IN  IF s > 0 THEN [kind |-> "new", ret |-> MkList(P0_rangeLoop(<<>>, from, to, s))]
        ELSE [kind |-> "error", ret |-> Undef]

\* List.range(from, to, step = 1): the assertion on step comes first
P0_range(from, to, step) ==
    LET s == IF step = Omitted THEN 1 ELSE step
    IN  IF s > 0 THEN [kind |-> "new", ret |-> MkList(P0_rangeLoop(<<>>, from, to, s))]
        ELSE [kind |-> "error", ret |-> Undef]

P0_at(this, index) ==
    LET i == IF index < 0 THEN Size(this) + index ELSE index
    IN  Scalar(this, Read(this, i))

\* slice whose loop runs while start < end only
P0_sliceUnclamped(this, start, end) ==
    LET len == Size(this)
        s0  == IF start = Omitted THEN 0 ELSE start
        e0  == IF end = Omitted THEN len ELSE end
        s1  == IF s0 < 0 THEN len + s0 ELSE s0
        e1  == IF e0 < 0 THEN len + e0 ELSE e0
        n   == IF e1 > s1 THEN e1 - s1 ELSE 0
    IN  NewObj(this, MkList([k \in 1..n |-> Read(this, s1 + k - 1)]))

\* the loop of slice pushes #struct[start], #struct[start+1], ... while
\* start < end && start < len, whatever the sign of start
P0_slice(this, start, end) ==
    LET len == Size(this)
        s0  == IF start = Omitted THEN 0 ELSE start
        e0  == IF end = Omitted THEN len ELSE end
        s1  == IF s0 < 0 THEN len + s0 ELSE s0
        e1  == IF e0 < 0 THEN len + e0 ELSE e0
        hi  == Min(e1, len)
        n   == IF hi > s1 THEN hi - s1 ELSE 0
    IN  NewObj(this, MkList([k \in 1..n |-> Read(this, s1 + k - 1)]))

RECURSIVE P0_concatCells(_, _)
\* the nested loop of concat: every list's cells 0 .. size-1, in order
P0_concatCells(cells, lists) ==
    IF lists = <<>> THEN cells
    ELSE P0_concatCells(cells \o [j \in 1..Size(Head(lists)) |-> Read(Head(lists), j - 1)],
                        Tail(lists))

P0_concat(this, lists) ==
    NewObj(this, MkList(P0_concatCells(P0_from(this).elems, lists)))

P0_splice(this, start, deleteCount, items) ==
    IF start = Omitted THEN P0_slice(this, Omitted, Omitted)
    ELSE
      LET s == IF start < 0 THEN Size(this) + start ELSE start
      IN  IF deleteCount = Omitted THEN P0_slice(this, 0, s)
          ELSE IF deleteCount < 0 THEN P0_slice(this, Omitted, Omitted)
          ELSE
            LET head     == P0_slice(this, 0, s)
                tail     == P0_slice(head.self, s + deleteCount, Omitted)
                itemList == P0_constructor(items)
            IN  NewObj(tail.self, P0_concat(head.ret, <<itemList, tail.ret>>).ret)

\* clone(): List.from(this)
P0_clone(this) == P0_from(this)

\* swap without the clone: the exchange is written into the receiver
P0_swapInPlace(this, index1, index2) ==
    LET i1 == IF index1 < 0 THEN Size(this) + index1 ELSE index1
        i2 == IF index2 < 0 THEN Size(this) + index2 ELSE index2
    IN  IF i1 >= Size(this) \/ i2 >= Size(this) THEN Same(this)
        ELSE LET written == StructSet(StructSet(this, i2, Read(this, i1)),
                                      i1, Read(this, i2))
             IN  [self |-> written, kind |-> "this", ret |-> written, handed |-> FALSE]

P0_swap(this, index1, index2) ==
    LET other == P0_clone(this)
        i1    == IF index1 < 0 THEN Size(this) + index1 ELSE index1
        i2    == IF index2 < 0 THEN Size(this) + index2 ELSE index2
    IN  IF i1 >= Size(this) \/ i2 >= Size(this) THEN NewObj(this, other)
        ELSE NewObj(this,
                    StructSet(StructSet(other, i2, Read(this, i1)),
                              i1, Read(this, i2)))

P0_removeAt(this, index) == P0_splice(this, index, 1, <<>>)

P0_replaceAt(this, index, item) == P0_splice(this, index, 1, <<item>>)

P0_updateAt(this, index, f) ==
    LET i     == IF index < 0 THEN Size(this) + index ELSE index
        item  == P0_at(this, i).ret
        other == P0_slice(this, Omitted, Omitted).ret
    IN  IF Truthy(item)
        THEN IF f = "notFunction" THEN Throw(this)
             ELSE NewObj(this, StructSet(other, i, Apply(f, item)))
        ELSE NewObj(this, other)

\* each: asserts a function, calls callback(#struct[i], i), returns this
P0_each(this, cb) ==
    IF cb = "notFunction" THEN Throw(this) ELSE Same(this)

\* append: List.from(this), then other.#struct[other.#length++] = items[i]
P0_append(this, items) == NewObj(this, MkList(P0_from(this).elems \o items))

\* prepend: List.from(items), then the receiver's cells are pushed after
P0_prepend(this, items) ==
    NewObj(this, MkList(P0_from(MkArray(items)).elems \o this.elems))

\* reverse: pushes #struct[#length-1] down to #struct[0] onto an empty list
P0_reverse(this) ==
    NewObj(this, MkList([k \in 1..Size(this) |-> Read(this, Size(this) - k)]))

\* filter: asserts a function, keeps the items for which predicate(item, i)
\* is truthy; the predicates tried return their item
P0_filter(this, predicate) ==
    IF predicate = "notFunction" THEN Throw(this)
    ELSE NewObj(this, MkList(SelectSeq(this.elems, Truthy)))

\* drop that only refuses a negative count
P0_dropFromZero(this, count) ==
    IF count >= 0 THEN P0_slice(this, count, Omitted) ELSE Throw(this)

P0_drop(this, count) ==
    IF count > 0 THEN P0_slice(this, count, Omitted) ELSE Throw(this)

P0_take(this, count) == P0_slice(this, 0, count)

\* some: asserts a function, then looks for an item the predicate accepts
P0_some(this, predicate) ==
    IF predicate = "notFunction" THEN Throw(this)
    ELSE Scalar(this, \E k \in 1..Size(this) : Holds(predicate, this.elems[k]))

\* the object groupBy builds: for each key, the items with that key, in order
Groups(elems, keys) ==
    [key \in keys |-> SelectSeq(elems, LAMBDA item : item = key)]

\* groupBy: no assertion; callback(item, i) is first called in the loop, and
\* calling a non-function throws a TypeError there. The callbacks tried key
\* an item by itself
P0_groupBy(this, callback) ==
    IF Size(this) > 0 /\ callback = "notFunction" THEN Throw(this)
    ELSE Scalar(this, Groups(this.elems, {this.elems[k] : k \in 1..Size(this)}))

RECURSIVE P0_whileIndex(_, _, _)
\* while (index < this.#length && predicate(this.#struct[index], index)) index++
P0_whileIndex(this, predicate, index) ==
    IF index < Size(this) /\ Holds(predicate, Read(this, index))
    THEN P0_whileIndex(this, predicate, index + 1)
    ELSE index

\* dropWhile: no assertion; the predicate is first called in the loop
P0_dropWhile(this, predicate) ==
    IF Size(this) > 0 /\ predicate = "notFunction" THEN Throw(this)
    ELSE P0_slice(this, P0_whileIndex(this, predicate, 0), Omitted)

\* takeWhile keeping every element the predicate accepts
P0_takeWhileResuming(this, predicate) ==
    IF Size(this) > 0 /\ predicate = "notFunction" THEN Throw(this)
    ELSE NewObj(this, MkList(SelectSeq(this.elems, LAMBDA x : Holds(predicate, x))))

\* takeWhile: no assertion; the predicate is first called in the loop
P0_takeWhile(this, predicate) ==
    IF Size(this) > 0 /\ predicate = "notFunction" THEN Throw(this)
    ELSE P0_take(this, P0_whileIndex(this, predicate, 0))

\* the test of the partition: compareFn ? compareFn(x, pivot) < 0 : x < pivot
P0_lessThanPivot(compareFn, x, pivot) ==
    IF compareFn = "none" THEN x # Undef /\ pivot # Undef /\ x < pivot
    ELSE Compare(compareFn, x, pivot) < 0

\* a partition that keeps an element in front of the pivot when it stands in
\* front of it and the pivot is not less than it
P0_partitionStable(elems, compareFn) ==
    LET pivotIndex == Len(elems) \div 2
        pivot      == elems[pivotIndex + 1]
        front      == SubSeq(elems, 1, pivotIndex)
        back       == SubSeq(elems, pivotIndex + 2, Len(elems))
    IN  [pivot |-> pivot,
         left  |-> SelectSeq(front, LAMBDA x : ~P0_lessThanPivot(compareFn, pivot, x))
                     \o SelectSeq(back, LAMBDA x : P0_lessThanPivot(compareFn, x, pivot)),
         right |-> SelectSeq(front, LAMBDA x : P0_lessThanPivot(compareFn, pivot, x))
                     \o SelectSeq(back, LAMBDA x : ~P0_lessThanPivot(compareFn, x, pivot))]

\* the partition without the skip of the pivot's own index
P0_partitionKeepingPivot(elems, compareFn) ==
    LET pivotIndex == Len(elems) \div 2
        pivot      == elems[pivotIndex + 1]
    IN  [pivot |-> pivot,
         left  |-> SelectSeq(elems, LAMBDA x : P0_lessThanPivot(compareFn, x, pivot)),
         right |-> SelectSeq(elems, LAMBDA x : ~P0_lessThanPivot(compareFn, x, pivot))]

\* the loop of sort on a list of two or more elements: the middle element
\* is the pivot, every other element goes left or right, in order
P0_partition(elems, compareFn) ==
    LET pivotIndex == Len(elems) \div 2
        pivot      == elems[pivotIndex + 1]
        others     == SubSeq(elems, 1, pivotIndex)
                        \o SubSeq(elems, pivotIndex + 2, Len(elems))
    IN  [pivot |-> pivot,
         left  |-> SelectSeq(others, LAMBDA x : P0_lessThanPivot(compareFn, x, pivot)),
         right |-> SelectSeq(others, LAMBDA x : ~P0_lessThanPivot(compareFn, x, pivot))]

RECURSIVE P0_sortCells(_, _)
\* the quicksort of sort: the result is
\* left.sort(compareFn).append(pivot).concat(right.sort(compareFn))
P0_sortCells(elems, compareFn) ==
    IF Len(elems) <= 1 THEN elems
    ELSE LET parts == P0_partition(elems, compareFn)
         IN  P0_sortCells(parts.left, compareFn) \o <<parts.pivot>>
               \o P0_sortCells(parts.right, compareFn)

RECURSIVE P0_sortCellsStrict(_, _)
\* a quicksort whose right part holds only what the pivot is less than
P0_sortCellsStrict(elems, compareFn) ==
    IF Len(elems) <= 1 THEN elems
    ELSE LET pivotIndex == Len(elems) \div 2
             pivot      == elems[pivotIndex + 1]
             others     == SubSeq(elems, 1, pivotIndex)
                             \o SubSeq(elems, pivotIndex + 2, Len(elems))
             left       == SelectSeq(others,
                               LAMBDA x : P0_lessThanPivot(compareFn, x, pivot))
             right      == SelectSeq(others,
                               LAMBDA x : P0_lessThanPivot(compareFn, pivot, x))
         IN  P0_sortCellsStrict(left, compareFn) \o <<pivot>>
               \o P0_sortCellsStrict(right, compareFn)

P0_sortStrict(this, compareFn) ==
    IF Size(this) <= 1 THEN NewObj(this, P0_clone(this))
    ELSE NewObj(this, MkList(P0_sortCellsStrict(this.elems, compareFn)))

P0_sort(this, compareFn) ==
    IF Size(this) <= 1 THEN NewObj(this, P0_clone(this))
    ELSE NewObj(this, MkList(P0_sortCells(this.elems, compareFn)))

\* unique(): List.from(new Set(this)); the iterator yields #struct[0 .. #length-1]
P0_unique(this) == NewObj(this, P0_from(MkArray(NativeSet(this.elems))))

\* toArray(): Array.from(this)
P0_toArray(this) == NewObj(this, MkArray(this.elems))

\* ------------------------------------------------------------------------
\* part_001: the array-backed class
\* ------------------------------------------------------------------------
resolveIndex(list, index) == IF index < 0 THEN Size(list) + index ELSE index

isValidIndex(list, index) == index >= 0 /\ index < Size(list)

\* ToIntegerOrInfinity of an argument: undefined converts to 0
ToInteger(x) == IF x = Omitted THEN 0 ELSE x

\* a relative index clamped into 0 .. len, as Array.prototype.slice and
\* toSpliced do
Clamp(rel, len) == IF rel < 0 THEN Max(len + rel, 0) ELSE Min(rel, len)

\* Array.prototype.slice(start, end): a new array, index properties only
NativeSlice(arr, start, end) ==
    LET len == Len(arr.elems)
        k   == Clamp(ToInteger(start), len)
        fin == IF end = Omitted THEN len ELSE Clamp(end, len)
        n   == IF fin > k THEN fin - k ELSE 0
    IN  MkArray([i \in 1..n |-> arr.elems[k + i]])

\* toSpliced with its second argument taken for an end index, as slice's is
NativeToSplicedToEnd(arr, start, deleteCount, items) ==
    LET len  == Len(arr.elems)
        from == Clamp(ToInteger(start), len)
        skip == Min(Max(ToInteger(deleteCount) - from, 0), len - from)
    IN  MkArray(SubSeq(arr.elems, 1, from) \o items
                \o SubSeq(arr.elems, from + skip + 1, len))

\* Array.prototype.toSpliced(start, deleteCount, ...items), both leading
\* arguments passed (possibly as undefined)
NativeToSpliced(arr, start, deleteCount, items) ==
    LET len  == Len(arr.elems)
        from == Clamp(ToInteger(start), len)
        skip == Min(Max(ToInteger(deleteCount), 0), len - from)
    IN  MkArray(SubSeq(arr.elems, 1, from) \o items
                \o SubSeq(arr.elems, from + skip + 1, len))

\* constructor(private readonly arr): the list keeps the array it is given
P1_constructor(arr) == [arr EXCEPT !.kind = "List"]

P1_of(items) == P1_constructor(MkArray(items))

RECURSIVE P1_rangeLoop(_, _, _, _)
\* for (let i = from; i < to; i += step) result.push(i)
P1_rangeLoop(result, i, to, step) ==
    IF i < to THEN P1_rangeLoop(Append(result, i), i + step, to, step)
    ELSE result

\* range pushing while i <= to
P1_rangeInclusive(from, to, step) ==
    LET s == IF step = Omitted THEN 1 ELSE step
    IN  IF s > 0
        THEN [kind |-> "new",
              ret |-> P1_constructor(MkArray(P1_rangeLoop(<<>>, from, to + 1, s)))]
        ELSE [kind |-> "error", ret |-> Undef]

\* List.range(from, to, step = 1): the assertion on step comes first
P1_range(from, to, step) ==
    LET s == IF step = Omitted THEN 1 ELSE step
    IN  IF s > 0
        THEN [kind |-> "new",
              ret |-> P1_constructor(MkArray(P1_rangeLoop(<<>>, from, to, s)))]
        ELSE [kind |-> "error", ret |-> Undef]

P1_at(this, index) == Scalar(this, Read(this, resolveIndex(this, index)))

P1_slice(this, start, end) ==
    NewObj(this, P1_constructor(NativeSlice(this, start, end)))

RECURSIVE P1_concatPush(_, _)
\* for (const list of items) arr.push(...list.arr)
P1_concatPush(cells, items) ==
    IF items = <<>> THEN cells
    ELSE P1_concatPush(cells \o Head(items).elems, Tail(items))

P1_concat(this, items) ==
    NewObj(this,
           P1_constructor(MkArray(
               P1_concatPush(NativeSlice(this, Omitted, Omitted).elems, items))))

P1_splice(this, start, deleteCount, items) ==
    NewObj(this, P1_constructor(NativeToSpliced(this, start, deleteCount, items)))

P1_removeAt(this, index) == P1_splice(this, resolveIndex(this, index), 1, <<>>)

P1_replaceAt(this, index, item) ==
    LET i   == resolveIndex(this, index)
        arr == NativeSlice(this, Omitted, Omitted)
    IN  NewObj(this, P1_constructor(ArraySet(arr, i, item)))

P1_updateAt(this, index, f) ==
    LET i    == resolveIndex(this, index)
        item == P1_at(this, i).ret
    IN  IF ~Truthy(item) THEN Same(this)
        ELSE IF f = "notFunction" THEN Throw(this)
        ELSE P1_replaceAt(this, i, Apply(f, item))

P1_swap(this, index1, index2) ==
    LET i1  == resolveIndex(this, index1)
        i2  == resolveIndex(this, index2)
        arr == NativeSlice(this, Omitted, Omitted)
    IN  IF ~isValidIndex(this, i1) \/ ~isValidIndex(this, i2) THEN Same(this)
        ELSE NewObj(this,
                    P1_constructor(ArraySet(ArraySet(arr, i1, Read(arr, i2)),
                                            i2, Read(arr, i1))))

\* move without the adjustment of toIndex after the removal
P1_moveUnadjusted(this, fromIndex, toIndex) ==
    LET from == resolveIndex(this, fromIndex)
        to   == resolveIndex(this, toIndex)
    IN  IF ~isValidIndex(this, from) \/ ~isValidIndex(this, to) THEN Same(this)
        ELSE
          LET arr        == NativeSlice(this, Omitted, Omitted)
              itemToMove == arr.elems[from + 1]
              removed    == NativeToSpliced(arr, from, 1, <<>>)
          IN  NewObj(this,
                     P1_constructor(NativeToSpliced(removed, to, 0, <<itemToMove>>)))

P1_move(this, fromIndex, toIndex) ==
    LET from == resolveIndex(this, fromIndex)
        to   == resolveIndex(this, toIndex)
    IN  IF ~isValidIndex(this, from) \/ ~isValidIndex(this, to) THEN Same(this)
        ELSE
          LET arr        == NativeSlice(this, Omitted, Omitted)
              itemToMove == arr.elems[from + 1]
              removed    == NativeToSpliced(arr, from, 1, <<>>)
              to2        == IF to > from THEN to - 1 ELSE to
          IN  NewObj(this,
                     P1_constructor(NativeToSpliced(removed, to2, 0, <<itemToMove>>)))

\* each: this.arr.forEach(callbackFn), which throws a TypeError for a
\* non-function and calls callbackFn(item, index, this.arr) otherwise
P1_each(this, cb) ==
    IF cb = "notFunction" THEN Throw(this)
    ELSE IF Size(this) > 0 THEN Handing(Same(this))
    ELSE Same(this)

P1_append(this, items) == NewObj(this, P1_constructor(MkArray(this.elems \o items)))

P1_prepend(this, items) == NewObj(this, P1_constructor(MkArray(items \o this.elems)))

\* reverse: this.arr.toReversed()
P1_reverse(this) ==
    NewObj(this,
           P1_constructor(MkArray([k \in 1..Size(this) |-> Read(this, Size(this) - k)])))

\* filter: this.arr.filter(predicate), which throws a TypeError for a
\* non-function and calls predicate(item, index, this.arr) otherwise
P1_filter(this, predicate) ==
    IF predicate = "notFunction" THEN Throw(this)
    ELSE LET res == NewObj(this, P1_constructor(MkArray(SelectSeq(this.elems, Truthy))))
         IN  IF Size(this) > 0 THEN Handing(res) ELSE res

P1_drop(this, count) ==
    IF count > 0 THEN P1_slice(this, count, Omitted) ELSE Throw(this)

P1_take(this, count) == P1_slice(this, 0, count)

\* some: this.arr.some(predicate), which throws a TypeError for a
\* non-function and calls predicate(item, index, this.arr) otherwise
P1_some(this, predicate) ==
    IF predicate = "notFunction" THEN Throw(this)
    ELSE LET res == Scalar(this, \E k \in 1..Size(this) : Holds(predicate, this.elems[k]))
         IN  IF Size(this) > 0 THEN Handing(res) ELSE res

\* groupBy: callbackFn(item) is first called in the loop
P1_groupBy(this, callbackFn) ==
    IF Size(this) > 0 /\ callbackFn = "notFunction" THEN Throw(this)
    ELSE Scalar(this, Groups(this.elems, {this.elems[k] : k \in 1..Size(this)}))

RECURSIVE P1_whileIndex(_, _, _)
\* while (index < this.arr.length && predicate(this.arr[index])) index++
P1_whileIndex(this, predicate, index) ==
    IF index < Size(this) /\ Holds(predicate, Read(this, index))
    THEN P1_whileIndex(this, predicate, index + 1)
    ELSE index

P1_dropWhile(this, predicate) ==
    IF Size(this) > 0 /\ predicate = "notFunction" THEN Throw(this)
    ELSE P1_slice(this, P1_whileIndex(this, predicate, 0), Omitted)

P1_takeWhile(this, predicate) ==
    IF Size(this) > 0 /\ predicate = "notFunction" THEN Throw(this)
    ELSE P1_slice(this, 0, P1_whileIndex(this, predicate, 0))

\* a sorts strictly before b in Array.prototype.toSorted: by compareFn, or by
\* the strings of the elements when there is none
NativeBefore(compareFn, a, b) ==
    IF compareFn = "none" THEN LexLess(NumberToString(a), NumberToString(b))
    ELSE Compare(compareFn, a, b) < 0

RECURSIVE NativeStableSort(_, _)
\* the one order a stable sort can give under a consistent comparator: each
\* element goes behind the earlier elements that do not sort after it
NativeStableSort(cells, compareFn) ==
    IF cells = <<>> THEN <<>>
    ELSE LET n      == Len(cells)
             x      == cells[n]
             sorted == NativeStableSort(SubSeq(cells, 1, n - 1), compareFn)
         IN  SelectSeq(sorted, LAMBDA y : ~NativeBefore(compareFn, x, y))
               \o <<x>>
               \o SelectSeq(sorted, LAMBDA y : NativeBefore(compareFn, x, y))

\* the orders toSorted may give n defined elements when compareFn is not a
\* consistent comparator (implementation-defined): any; otherwise only the
\* argument's own
Orders(n, compareFn) ==
    IF compareFn = "alwaysLess"
    THEN {f \in [1..n -> 1..n] : \A i \in 1..n, j \in 1..n : f[i] = f[j] => i = j}
    ELSE {[k \in 1..n |-> k]}

\* toSorted(compareFn): the defined elements sorted, then undefined and holes
NativeToSorted(arr, compareFn, order) ==
    LET defined  == SelectSeq(arr.elems, LAMBDA x : x # Undef)
        sorted   == IF compareFn = "alwaysLess"
                    THEN [k \in 1..Len(defined) |-> defined[order[k]]]
                    ELSE NativeStableSort(defined, compareFn)
    IN  MkArray(sorted \o SelectSeq(arr.elems, LAMBDA x : x = Undef))

P1_sort(this, compareFn, order) ==
    NewObj(this, P1_constructor(NativeToSorted(this, compareFn, order)))

\* unique(): List.from(new Set(this.arr))
P1_unique(this) == NewObj(this, P1_constructor(MkArray(NativeSet(this.elems))))

\* union(other): this.concat(other).unique()
P1_union(this, other) ==
    NewObj(this, P1_unique(P1_concat(this, <<other>>).ret).ret)

RECURSIVE P1_intersectionLoop(_, _, _, _)
\* for each item of this.arr: if (otherSet.has(item)) push it and delete it
\* from otherSet
P1_intersectionLoop(this, i, otherSet, result) ==
    IF i >= Size(this) THEN result
    ELSE LET item == Read(this, i)
         IN  IF item \in otherSet
             THEN P1_intersectionLoop(this, i + 1, otherSet \ {item}, Append(result, item))
             ELSE P1_intersectionLoop(this, i + 1, otherSet, result)

RECURSIVE P1_intersectionLoopKeeping(_, _, _, _)
\* the loop without otherSet.delete(item)
P1_intersectionLoopKeeping(this, i, otherSet, result) ==
    IF i >= Size(this) THEN result
    ELSE LET item == Read(this, i)
         IN  IF item \in otherSet
             THEN P1_intersectionLoopKeeping(this, i + 1, otherSet, Append(result, item))
             ELSE P1_intersectionLoopKeeping(this, i + 1, otherSet, result)

\* intersection without the deletion from otherSet
P1_intersectionKeeping(this, other) ==
    LET otherSet == {other.elems[k] : k \in 1..Size(other)}
    IN  NewObj(this,
               P1_constructor(MkArray(P1_intersectionLoopKeeping(this, 0, otherSet, <<>>))))

\* intersection(other): otherSet = new Set(other.arr) is the method's own
P1_intersection(this, other) ==
    LET otherSet == {other.elems[k] : k \in 1..Size(other)}
    IN  NewObj(this, P1_constructor(MkArray(P1_intersectionLoop(this, 0, otherSet, <<>>))))

RECURSIVE P1_shuffleLoop(_, _, _)
\* for (i = length - 1; i > 0; i--): j = floor(random() * (i + 1)), here
\* picks[i], and the cells i and j of the copy are exchanged
P1_shuffleLoop(shuffledList, i, picks) ==
    IF i <= 0 THEN shuffledList
    ELSE LET j == picks[i]
         IN  P1_shuffleLoop(ArraySet(ArraySet(shuffledList, i, Read(shuffledList, j)),
                                     j, Read(shuffledList, i)),
                            i - 1, picks)

RECURSIVE P1_shuffleLoopCopying(_, _, _)
\* the loop with shuffledList[i] = shuffledList[j] in place of the exchange
P1_shuffleLoopCopying(shuffledList, i, picks) ==
    IF i <= 0 THEN shuffledList
    ELSE P1_shuffleLoopCopying(ArraySet(shuffledList, i, Read(shuffledList, picks[i])),
                               i - 1, picks)

P1_shuffleCopying(this, picks) ==
    NewObj(this,
           P1_constructor(P1_shuffleLoopCopying(NativeSlice(this, Omitted, Omitted),
                                                Size(this) - 1, picks)))

\* shuffle(): Fisher-Yates on this.arr.slice()
P1_shuffle(this, picks) ==
    NewObj(this,
           P1_constructor(P1_shuffleLoop(NativeSlice(this, Omitted, Omitted),
                                         Size(this) - 1, picks)))

RECURSIVE P1_chunkLoop(_, _, _, _)
\* for (i = 0; i < this.arr.length; i += size) chunks.push(this.arr.slice(i, i + size))
P1_chunkLoop(this, i, size, chunks) ==
    IF i < Size(this)
    THEN P1_chunkLoop(this, i + size, size,
                      Append(chunks, NativeSlice(this, i, i + size).elems))
    ELSE chunks

RECURSIVE P1_chunkLoopWhole(_, _, _, _)
\* the loop stopping when fewer than size elements are left
P1_chunkLoopWhole(this, i, size, chunks) ==
    IF i + size <= Size(this)
    THEN P1_chunkLoopWhole(this, i + size, size,
                           Append(chunks, NativeSlice(this, i, i + size).elems))
    ELSE chunks

P1_chunkWhole(this, size) ==
    IF size > 0
    THEN NewObj(this, P1_constructor(MkArray(P1_chunkLoopWhole(this, 0, size, <<>>))))
    ELSE Throw(this)

\* chunk(size): the assertion on size comes first; the groups are arrays
P1_chunk(this, size) ==
    IF size > 0
    THEN NewObj(this, P1_constructor(MkArray(P1_chunkLoop(this, 0, size, <<>>))))
    ELSE Throw(this)

\* insertAt putting the item in the place of the element at index
P1_insertAtReplacing(this, index, item) ==
    P1_splice(this, resolveIndex(this, index), 1, <<item>>)

\* insertAt(index, item): this.splice(resolveIndex(this, index), 0, item)
P1_insertAt(this, index, item) ==
    P1_splice(this, resolveIndex(this, index), 0, <<item>>)

\* toArray(): this.arr.slice()
P1_toArray(this) == NewObj(this, NativeSlice(this, Omitted, Omitted))

\* ------------------------------------------------------------------------
\* The program
\* ------------------------------------------------------------------------
VARIABLES
    impl,     \* the class the program imports
    heap,     \* <<the list bound to the program's variable>>, followed by
              \* the object the last call built, if it built one
    escaped,  \* positions of heap whose storage code outside the class holds
    last,     \* the last call: name, arguments, receiver before it, result
    detail    \* whether last records the arguments and the result of a call

vars == <<impl, heap, escaped, last, detail>>

\* all tuples over S of length at most n
RECURSIVE Tuples(_, _)
Tuples(S, n) ==
    IF n = 0 THEN {<<>>}
    ELSE LET shorter == Tuples(S, n - 1)
         IN  shorter \cup {Append(t, x) : t \in {u \in shorter : Len(u) = n - 1}, x \in S}

\* index arguments tried on a receiver of size n: in range, out of range
\* above (n, n+1) and negative enough to stay negative once resolved
\* (-n-1, -n-2)
Idx(h) == IF Len(h) # 1 THEN {} ELSE (0 - (Size(h[1]) + 2)) .. (Size(h[1]) + 1)

OptIdx(h) == IF Len(h) # 1 THEN {} ELSE Idx(h) \cup {Omitted}

\* deleteCount arguments: omitted, negative, zero, up to the whole list
Counts(h) == IF Len(h) # 1 THEN {} ELSE ((0 - 1) .. Size(h[1])) \cup {Omitted}

Callbacks == {"reader", "keeper", "notFunction"}

\* predicate arguments: x => x, x => x === 0, and a non-function
Predicates == {"reader", "isZero", "notFunction"}

NoCall ==
    [op |-> "none", i |-> Omitted, j |-> Omitted, items |-> <<>>, f |-> "none",
     kind |-> "none", before |-> MkList(<<>>), out |-> Undef]

Args(i, j, items, f) == [i |-> i, j |-> j, items |-> items, f |-> f]

\* a call of method op on heap[1] with result res
Call(op, a, res) ==
    /\ heap' = IF res.kind = "new" THEN <<res.self, res.ret>> ELSE <<res.self>>
    /\ escaped' = (IF res.handed /\ a.f = "keeper" THEN {1} ELSE {})
                    \cup (IF res.kind = "new" /\ res.ret.kind = "Array" THEN {2} ELSE {})
    /\ last' = IF detail
               THEN [op |-> op, i |-> a.i, j |-> a.j, items |-> a.items, f |-> a.f,
                     kind |-> res.kind, before |-> heap[1], out |-> res.ret]
               ELSE [NoCall EXCEPT !.op = op, !.kind = res.kind, !.before = heap[1]]
    /\ UNCHANGED <<impl, detail>>

\* the program is between two statements: a list is bound and no call's
\* result is pending
Bound == Len(heap) = 1 /\ last = NoCall

This == heap[1]

Init ==
    /\ impl \in Impls
    /\ heap = <<>>
    /\ escaped = {}
    /\ last = NoCall
    /\ detail = TRUE

\* the same program, observed without the arguments and results of its calls
InitBrief ==
    /\ impl \in Impls
    /\ heap = <<>>
    /\ escaped = {}
    /\ last = NoCall
    /\ detail = FALSE

\* list = List.of(...items)
Of(items) ==
    /\ heap = <<>>
    /\ heap' = <<IF impl = "part_000" THEN P0_of(items) ELSE P1_of(items)>>
    /\ escaped' = {}
    /\ last' = NoCall
    /\ UNCHANGED <<impl, detail>>

\* step arguments: omitted, negative, zero, positive
Steps == ((0 - 1) .. MaxStep) \cup {Omitted}

\* list = List.range(from, to, step); nothing is bound when range throws
Range(from, to, step) ==
    /\ heap = <<>>
    /\ LET res == IF impl = "part_000" THEN P0_range(from, to, step)
                  ELSE P1_range(from, to, step)
       IN  /\ heap' = IF res.kind = "new" THEN <<res.ret>> ELSE <<>>
           /\ last' = IF detail
                      THEN [NoCall EXCEPT !.op = "range", !.i = from, !.j = to,
                                          !.items = <<step>>, !.kind = res.kind,
                                          !.out = res.ret]
                      ELSE [NoCall EXCEPT !.op = "range", !.kind = res.kind]
    /\ escaped' = {}
    /\ UNCHANGED <<impl, detail>>

\* list = result, for a call that returned a new list that is short enough
Rebind ==
    /\ Len(heap) = 2
    /\ heap[2].kind = "List"
    /\ Size(heap[2]) <= MaxLen
    /\ heap' = <<heap[2]>>
    /\ escaped' = {}
    /\ last' = NoCall
    /\ UNCHANGED <<impl, detail>>

\* the statement ends: the result of the last call is dropped
Return ==
    /\ Len(heap) >= 1
    /\ last # NoCall
    /\ heap' = <<heap[1]>>
    /\ escaped' = {}
    /\ last' = NoCall
    /\ UNCHANGED <<impl, detail>>

At(index) ==
    /\ Bound
    /\ Call("at", Args(index, Omitted, <<>>, "none"),
            IF impl = "part_000" THEN P0_at(This, index) ELSE P1_at(This, index))

Slice(start, end) ==
    /\ Bound
    /\ Call("slice", Args(start, end, <<>>, "none"),
            IF impl = "part_000" THEN P0_slice(This, start, end)
            ELSE P1_slice(This, start, end))

Splice(start, deleteCount, items) ==
    /\ Bound
    /\ Call("splice", Args(start, deleteCount, items, "none"),
            IF impl = "part_000" THEN P0_splice(This, start, deleteCount, items)
            ELSE P1_splice(This, start, deleteCount, items))

RemoveAt(index) ==
    /\ Bound
    /\ Call("removeAt", Args(index, Omitted, <<>>, "none"),
            IF impl = "part_000" THEN P0_removeAt(This, index)
            ELSE P1_removeAt(This, index))

ReplaceAt(index, item) ==
    /\ Bound
    /\ Call("replaceAt", Args(index, Omitted, <<item>>, "none"),
            IF impl = "part_000" THEN P0_replaceAt(This, index, item)
            ELSE P1_replaceAt(This, index, item))

UpdateAt(index, f) ==
    /\ Bound
    /\ Call("updateAt", Args(index, Omitted, <<>>, f),
            IF impl = "part_000" THEN P0_updateAt(This, index, f)
            ELSE P1_updateAt(This, index, f))

Swap(index1, index2) ==
    /\ Bound
    /\ Call("swap", Args(index1, index2, <<>>, "none"),
            IF impl = "part_000" THEN P0_swap(This, index1, index2)
            ELSE P1_swap(This, index1, index2))

\* move exists in part_001 only
Move(fromIndex, toIndex) ==
    /\ Bound
    /\ impl = "part_001"
    /\ Call("move", Args(fromIndex, toIndex, <<>>, "none"),
            P1_move(This, fromIndex, toIndex))

\* list.concat(List.of(...items))
Concat(items) ==
    /\ Bound
    /\ Call("concat", Args(Omitted, Omitted, items, "none"),
            IF impl = "part_000" THEN P0_concat(This, <<P0_of(items)>>)
            ELSE P1_concat(This, <<P1_of(items)>>))

Each(cb) ==
    /\ Bound
    /\ Call("each", Args(Omitted, Omitted, <<>>, cb),
            IF impl = "part_000" THEN P0_each(This, cb) ELSE P1_each(This, cb))

AppendItems(items) ==
    /\ Bound
    /\ Call("append", Args(Omitted, Omitted, items, "none"),
            IF impl = "part_000" THEN P0_append(This, items) ELSE P1_append(This, items))

PrependItems(items) ==
    /\ Bound
    /\ Call("prepend", Args(Omitted, Omitted, items, "none"),
            IF impl = "part_000" THEN P0_prepend(This, items) ELSE P1_prepend(This, items))

Reverse ==
    /\ Bound
    /\ Call("reverse", Args(Omitted, Omitted, <<>>, "none"),
            IF impl = "part_000" THEN P0_reverse(This) ELSE P1_reverse(This))

Filter(predicate) ==
    /\ Bound
    /\ Call("filter", Args(Omitted, Omitted, <<>>, predicate),
            IF impl = "part_000" THEN P0_filter(This, predicate)
            ELSE P1_filter(This, predicate))

Drop(count) ==
    /\ Bound
    /\ Call("drop", Args(count, Omitted, <<>>, "none"),
            IF impl = "part_000" THEN P0_drop(This, count) ELSE P1_drop(This, count))

Take(count) ==
    /\ Bound
    /\ Call("take", Args(count, Omitted, <<>>, "none"),
            IF impl = "part_000" THEN P0_take(This, count) ELSE P1_take(This, count))

Some(predicate) ==
    /\ Bound
    /\ Call("some", Args(Omitted, Omitted, <<>>, predicate),
            IF impl = "part_000" THEN P0_some(This, predicate)
            ELSE P1_some(This, predicate))

GroupBy(callback) ==
    /\ Bound
    /\ Call("groupBy", Args(Omitted, Omitted, <<>>, callback),
            IF impl = "part_000" THEN P0_groupBy(This, callback)
            ELSE P1_groupBy(This, callback))

DropWhile(predicate) ==
    /\ Bound
    /\ Call("dropWhile", Args(Omitted, Omitted, <<>>, predicate),
            IF impl = "part_000" THEN P0_dropWhile(This, predicate)
            ELSE P1_dropWhile(This, predicate))

TakeWhile(predicate) ==
    /\ Bound
    /\ Call("takeWhile", Args(Omitted, Omitted, <<>>, predicate),
            IF impl = "part_000" THEN P0_takeWhile(This, predicate)
            ELSE P1_takeWhile(This, predicate))

\* list.sort(compareFn); order is the outcome toSorted picks when compareFn
\* is inconsistent
Sort(compareFn) ==
    /\ Bound
    /\ IF impl = "part_000"
       THEN Call("sort", Args(Omitted, Omitted, <<>>, compareFn),
                 P0_sort(This, compareFn))
       ELSE \E order \in Orders(Cardinality({k \in 1..Size(This) : This.elems[k] # Undef}),
                                 compareFn) :
               Call("sort", Args(Omitted, Omitted, <<>>, compareFn),
                    P1_sort(This, compareFn, order))

Unique ==
    /\ Bound
    /\ Call("unique", Args(Omitted, Omitted, <<>>, "none"),
            IF impl = "part_000" THEN P0_unique(This) ELSE P1_unique(This))

\* list.union(List.of(...items))
Union(items) ==
    /\ Bound
    /\ impl = "part_001"
    /\ Call("union", Args(Omitted, Omitted, items, "none"),
            P1_union(This, P1_of(items)))

\* list.intersection(other), other = List.of(...items); other stays on the
\* heap behind the result
Intersection(items) ==
    /\ Bound
    /\ impl = "part_001"
    /\ LET other == P1_of(items)
           res   == P1_intersection(This, other)
       IN  /\ heap' = <<res.self, res.ret, other>>
           /\ last' = IF detail
                      THEN [op |-> "intersection", i |-> Omitted, j |-> Omitted,
                            items |-> items, f |-> "none", kind |-> res.kind,
                            before |-> heap[1], out |-> res.ret]
                      ELSE [NoCall EXCEPT !.op = "intersection", !.kind = res.kind,
                                          !.before = heap[1]]
    /\ escaped' = {}
    /\ UNCHANGED <<impl, detail>>

\* the outcomes of Math.random() over one shuffle of n elements: a j in
\* 0..i for each step i = n-1 .. 1
Picks(n) == {picks \in [1..(n - 1) -> 0..(n - 1)] : \A i \in 1..(n - 1) : picks[i] <= i}

Shuffle(picks) ==
    /\ Bound
    /\ impl = "part_001"
    /\ Call("shuffle", Args(Omitted, Omitted, <<>>, "none"), P1_shuffle(This, picks))

\* list.chunk(size); the list of groups is looked at and not bound
Chunk(size) ==
    /\ Bound
    /\ impl = "part_001"
    /\ LET res == P1_chunk(This, size)
       IN  /\ heap' = <<res.self>>
           /\ last' = IF detail
                      THEN [op |-> "chunk", i |-> size, j |-> Omitted,
                            items |-> <<>>, f |-> "none", kind |-> res.kind,
                            before |-> heap[1], out |-> res.ret]
                      ELSE [NoCall EXCEPT !.op = "chunk", !.kind = res.kind,
                                          !.before = heap[1]]
    /\ escaped' = {}
    /\ UNCHANGED <<impl, detail>>

InsertAt(index, item) ==
    /\ Bound
    /\ impl = "part_001"
    /\ Call("insertAt", Args(index, Omitted, <<item>>, "none"),
            P1_insertAt(This, index, item))

ToArray ==
    /\ Bound
    /\ Call("toArray", Args(Omitted, Omitted, <<>>, "none"),
            IF impl = "part_000" THEN P0_toArray(This) ELSE P1_toArray(This))

\* code outside the class (the callback, or the caller before the statement
\* ends) assigns to a cell of an array it was handed
CallerWrite(id, k, v) ==
    /\ id \in escaped
    /\ last.op # "callerWrite"
    /\ k < Size(heap[id])
    /\ heap' = [heap EXCEPT ![id] = ArraySet(@, k, v)]
    /\ last' = [NoCall EXCEPT !.op = "callerWrite", !.i = k, !.items = <<v>>,
                              !.before = heap[1]]
    /\ UNCHANGED <<impl, escaped, detail>>

Next ==
    \/ \E items \in Tuples(Val, MaxLen) : Of(items)
    \/ \E from \in Val, to \in Val, step \in Steps : Range(from, to, step)
    \/ Rebind
    \/ Return
    \/ \E i \in Idx(heap) : At(i)
    \/ \E s \in OptIdx(heap), e \in OptIdx(heap) : Slice(s, e)
    \/ \E s \in OptIdx(heap), d \in Counts(heap), items \in Tuples(Val, MaxItems) :
          Splice(s, d, items)
    \/ \E i \in Idx(heap) : RemoveAt(i)
    \/ \E i \in Idx(heap), v \in Val : ReplaceAt(i, v)
    \/ \E i \in Idx(heap), f \in Fns \cup {"notFunction"} : UpdateAt(i, f)
    \/ \E i \in Idx(heap), j \in Idx(heap) : Swap(i, j)
    \/ \E i \in Idx(heap), j \in Idx(heap) : Move(i, j)
    \/ \E items \in Tuples(Val, MaxItems) : Concat(items)
    \/ \E cb \in Callbacks : Each(cb)
    \/ \E items \in Tuples(Val, MaxItems) : AppendItems(items)
    \/ \E items \in Tuples(Val, MaxItems) : PrependItems(items)
    \/ Reverse
    \/ \E predicate \in Callbacks : Filter(predicate)
    \/ \E predicate \in Predicates : Some(predicate)
    \/ \E callback \in {"reader", "notFunction"} : GroupBy(callback)
    \/ \E predicate \in Predicates : DropWhile(predicate)
    \/ \E predicate \in Predicates : TakeWhile(predicate)
    \/ \E compareFn \in Comparators : Sort(compareFn)
    \/ \E count \in Idx(heap) : Drop(count)
    \/ \E count \in Idx(heap) : Take(count)
    \/ \E picks \in (IF Len(heap) = 1 THEN Picks(Size(heap[1])) ELSE {}) : Shuffle(picks)
    \/ \E size \in Idx(heap) : Chunk(size)
    \/ \E i \in Idx(heap), v \in Val : InsertAt(i, v)
    \/ Unique
    \/ \E items \in Tuples(Val, MaxItems) : Union(items)
    \/ \E items \in Tuples(Val, MaxItems) : Intersection(items)
    \/ ToArray
    \/ \E id \in 1..2, k \in 0..MaxLen, v \in Val : CallerWrite(id, k, v)

Spec == Init /\ [][Next]_vars

\* every call of the program, arguments and results not recorded
SpecPurity == InitBrief /\ [][Next]_vars

\* a program that only constructs lists and splices them
NextSplice ==
    \/ \E items \in Tuples(Val, MaxLen) : Of(items)
    \/ Rebind
    \/ Return
    \/ \E s \in OptIdx(heap), d \in Counts(heap), items \in Tuples(Val, MaxItems) :
          Splice(s, d, items)

SpecSplice == Init /\ [][NextSplice]_vars

\* a program that builds longer lists and moves one element
NextMove ==
    \/ \E items \in Tuples(Val, MaxLong) : Of(items)
    \/ Rebind
    \/ Return
    \/ \E i \in Idx(heap), j \in Idx(heap) : Move(i, j)

SpecMove == Init /\ [][NextMove]_vars

\* a program that cuts lists at either end; replaceAt and swap give it
\* receivers with holes and with keys outside 0 .. size-1
NextTrim ==
    \/ \E items \in Tuples(Val, MaxLen) : Of(items)
    \/ Rebind
    \/ Return
    \/ \E i \in Idx(heap), v \in Val : ReplaceAt(i, v)
    \/ \E i \in Idx(heap), j \in Idx(heap) : Swap(i, j)
    \/ \E count \in Idx(heap) : Drop(count)
    \/ \E count \in Idx(heap) : Take(count)

SpecTrim == Init /\ [][NextTrim]_vars

\* the elements of the lists that are sorted: a negative, a single-digit
\* and a two-digit integer, and undefined
SortVals == {0 - 2, 2, 10, Undef}

\* a program that builds longer lists of integers and sorts them
NextSort ==
    \/ \E items \in Tuples(SortVals, MaxLong) : Of(items)
    \/ Rebind
    \/ Return
    \/ \E compareFn \in Comparators : Sort(compareFn)

SpecSort == Init /\ [][NextSort]_vars

\* a program that builds longer lists, undefined among their elements, and
\* treats them as sets
NextSets ==
    \/ \E items \in Tuples(Val \cup {Undef}, MaxLong) : Of(items)
    \/ Rebind
    \/ Return
    \/ Unique
    \/ \E items \in Tuples(Val \cup {Undef}, MaxLen) : Union(items)
    \/ \E items \in Tuples(Val \cup {Undef}, MaxLen) : Intersection(items)

SpecSets == Init /\ [][NextSets]_vars

\* a program that builds longer lists and shuffles them
NextShuffle ==
    \/ \E items \in Tuples(Val \cup {Undef}, MaxLong) : Of(items)
    \/ Rebind
    \/ Return
    \/ \E picks \in (IF Len(heap) = 1 THEN Picks(Size(heap[1])) ELSE {}) : Shuffle(picks)

SpecShuffle == Init /\ [][NextShuffle]_vars

\* a program that builds longer lists and splits them into groups
NextChunk ==
    \/ \E items \in Tuples(Val, MaxLong) : Of(items)
    \/ Return
    \/ \E size \in Idx(heap) : Chunk(size)

SpecChunk == Init /\ [][NextChunk]_vars

\* a program that builds longer lists and inserts an item
NextInsert ==
    \/ \E items \in Tuples(Val, MaxLong) : Of(items)
    \/ Rebind
    \/ Return
    \/ \E i \in Idx(heap), v \in Val : InsertAt(i, v)

SpecInsert == Init /\ [][NextInsert]_vars

\* a program that builds longer lists, undefined among their elements, and
\* cuts them where a predicate first fails
NextWhile ==
    \/ \E items \in Tuples(Val \cup {Undef}, MaxLong) : Of(items)
    \/ Rebind
    \/ Return
    \/ \E predicate \in Predicates : DropWhile(predicate)
    \/ \E predicate \in Predicates : TakeWhile(predicate)

SpecWhile == Init /\ [][NextWhile]_vars

\* One call of list.sort(compareFn) of part_000, step by step.  heap is what
\* is still to be done, in the order the code does it: a List is a list
\* sort has been called on, an Item is a pivot waiting to be appended.
\* last.before is the receiver, last.out the output so far, last.i the
\* number of calls of sort so far, last.items the sizes of the caller, left
\* and right at the last partition.
InitQuick ==
    /\ impl = "part_000"
    /\ \E items \in Tuples(SortVals, MaxLong), compareFn \in QuickComparators :
          /\ heap = <<P0_of(items)>>
          /\ last = [NoCall EXCEPT !.op = "quicksort", !.f = compareFn,
                                   !.kind = "call", !.i = 1,
                                   !.before = P0_of(items), !.out = MkList(<<>>)]
    /\ escaped = {}
    /\ detail = TRUE

\* the body of sort runs on the list in front: a list of at most one
\* element is returned as a clone, a longer one is partitioned and sort is
\* called on left, then the pivot is appended, then sort is called on right
SortCall ==
    /\ last.op = "quicksort"
    /\ heap # <<>>
    /\ Head(heap).kind = "List"
    /\ IF Size(Head(heap)) <= 1
       THEN /\ heap' = Tail(heap)
            /\ last' = [last EXCEPT !.kind = "return",
                                    !.out = MkList(@.elems \o P0_clone(Head(heap)).elems)]
       ELSE LET parts == P0_partition(Head(heap).elems, last.f)
            IN  /\ heap' = <<MkList(parts.left),
                             [MkList(<<parts.pivot>>) EXCEPT !.kind = "Item"],
                             MkList(parts.right)>> \o Tail(heap)
                /\ last' = [last EXCEPT !.kind = "partition", !.i = @ + 2,
                                        !.items = <<Size(Head(heap)), Len(parts.left),
                                                    Len(parts.right)>>]
    /\ UNCHANGED <<impl, escaped, detail>>

\* .append(pivot), once left.sort(compareFn) has returned
AppendPivot ==
    /\ last.op = "quicksort"
    /\ heap # <<>>
    /\ Head(heap).kind = "Item"
    /\ heap' = Tail(heap)
    /\ last' = [last EXCEPT !.kind = "append",
                            !.out = MkList(@.elems \o Head(heap).elems)]
    /\ UNCHANGED <<impl, escaped, detail>>

NextQuick ==
    \/ SortCall
    \/ AppendPivot

\* a call that has begun runs on: the program is sequential
SpecQuick == InitQuick /\ [][NextQuick]_vars /\ WF_vars(NextQuick)

\* a program that takes slices; swap gives part_000 receivers with keys
\* outside 0 .. size-1 and replaceAt gives part_001 receivers with holes
NextSlice ==
    \/ \E items \in Tuples(Val, MaxLen) : Of(items)
    \/ Rebind
    \/ Return
    \/ \E i \in Idx(heap), v \in Val : ReplaceAt(i, v)
    \/ \E i \in Idx(heap), j \in Idx(heap) : Swap(i, j)
    \/ \E s \in OptIdx(heap), e \in OptIdx(heap) : Slice(s, e)

SpecSlice == Init /\ [][NextSlice]_vars

\* a program that builds a list with range
NextRange ==
    \/ \E from \in 0..MaxLong, to \in 0..MaxLong, step \in Steps : Range(from, to, step)
    \/ Return

SpecRange == Init /\ [][NextRange]_vars

\* ------------------------------------------------------------------------
\* Properties
\* ------------------------------------------------------------------------
\* the resolved index of the glossary: i < 0 => n + i
Resolved(n, i) == IF i < 0 THEN n + i ELSE i

InRange(n, r) == r >= 0 /\ r < n

\* cells lo .. hi-1 of a sequence (0-based, half-open), empty when hi <= lo
Cells(elems, lo, hi) == IF hi > lo THEN SubSeq(elems, lo + 1, hi) ELSE <<>>

\* the last step was a call of method op, recorded with its arguments
Called(op) == detail /\ last.op = op

\* C1: every call of a List method leaves the receiver's element sequence
\* and size as they were before the call, whatever the arguments and
\* whether or not the call raises, for receivers built by of and for
\* receivers that earlier calls returned.
C1_Purity ==
    [][(heap # <<>> /\ last'.op \notin {"none", "callerWrite"})
          => /\ Len(heap') >= 1
             /\ heap'[1].elems = heap[1].elems
             /\ Size(heap'[1]) = Size(heap[1])
             /\ last'.before.elems = heap[1].elems]_vars

\* a swap on a non-empty receiver returned a list with another element
\* order, and the receiver still has its own
C1_Witness ==
    /\ last.op = "swap"
    /\ last.kind = "new"
    /\ Len(heap) = 2
    /\ heap[2].elems # heap[1].elems
    /\ heap[1].elems = last.before.elems

\* C2: no reference to a list's own storage reaches code outside the
\* class, neither as a returned value nor as a callback argument.
C2_NoEscape == \A id \in escaped : heap[id].kind # "List"

\* C3: at(i) returns the element at the resolved index r when 0 <= r < n
\* and undefined when r < 0 or r >= n, for every reachable list.
C3_At ==
    Called("at") =>
        LET n == Size(last.before)
            r == Resolved(n, last.i)
        IN  last.out = IF InRange(n, r) THEN last.before.elems[r + 1] ELSE Undef

\* C4: slice(start, end) returns exactly the receiver's elements at the
\* indices of [rs, re) that lie in [0, n), in order.
C4_Slice ==
    Called("slice") =>
        LET n  == Size(last.before)
            rs == IF last.i = Omitted THEN 0 ELSE Resolved(n, last.i)
            re == IF last.j = Omitted THEN n ELSE Resolved(n, last.j)
        IN  last.out.elems = Cells(last.before.elems, Max(rs, 0), Min(re, n))

\* list.slice(0, s).concat(List.of(...items), list.slice(s + d)), computed
\* by the class the program imports
Decomposed(this, s, d, items) ==
    IF impl = "part_000"
    THEN P0_concat(P0_slice(this, 0, s).ret,
                   <<P0_of(items), P0_slice(this, s + d, Omitted).ret>>).ret
    ELSE P1_concat(P1_slice(this, 0, s).ret,
                   <<P1_of(items), P1_slice(this, s + d, Omitted).ret>>).ret

\* C5: for s >= 0 and d >= 0, splice(s, d, ...items) has the element
\* sequence of slice(0, s).concat(List.of(...items), slice(s + d)).
C5_SpliceDecomposition ==
    (/\ Called("splice")
     /\ last.i # Omitted /\ last.i >= 0
     /\ last.j # Omitted /\ last.j >= 0)
        => /\ last.kind = "new"
           /\ last.out.elems
                = Decomposed(last.before, last.i, last.j, last.items).elems

\* a splice in the middle of a list removed an element, inserted an item
\* and kept a cell on either side
C5_Witness ==
    /\ Called("splice")
    /\ last.i = 1 /\ last.j = 1 /\ Len(last.items) = 1
    /\ Size(last.before) >= 2
    /\ last.out.elems = <<last.before.elems[1]>> \o last.items
                          \o Cells(last.before.elems, 2, Size(last.before))

\* C6: splice(start, d, ...items) with d >= 0 returns
\* prefix(0..s') ++ items ++ suffix(min(s'+d, n)..n), s' the resolved
\* start clamped into [0, n].
C6_SpliceClamped ==
    (Called("splice") /\ last.i # Omitted /\ last.j # Omitted /\ last.j >= 0)
        => LET n  == Size(last.before)
               s1 == Min(Max(Resolved(n, last.i), 0), n)
               e1 == Min(s1 + last.j, n)
           IN  /\ last.out.elems = Cells(last.before.elems, 0, s1) \o last.items
                                     \o Cells(last.before.elems, e1, n)
               /\ Size(last.out) = n - Min(last.j, n - s1) + Len(last.items)

\* slice(0, start) of the class the program imports
SliceTo(this, start) ==
    IF impl = "part_000" THEN P0_slice(this, 0, start).ret
    ELSE P1_slice(this, 0, start).ret

\* C7: splice() returns a full copy, splice(start) returns the elements of
\* slice(0, start), splice(start, d) with d < 0 returns a full copy; none
\* raises.
C7_SpliceMissing ==
    (Called("splice") /\ last.items = <<>>)
        => /\ last.kind = "new"
           /\ last.i = Omitted => last.out.elems = last.before.elems
           /\ (last.i # Omitted /\ last.j = Omitted)
                 => last.out.elems = SliceTo(last.before, last.i).elems
           /\ (last.i # Omitted /\ last.j # Omitted /\ last.j < 0)
                 => last.out.elems = last.before.elems

\* C8: removeAt(index) removes exactly the element at the resolved index
\* when it is in range and returns the receiver's elements otherwise.
C8_RemoveAt ==
    Called("removeAt") =>
        LET n == Size(last.before)
            r == Resolved(n, last.i)
        IN  last.out.elems =
                IF InRange(n, r)
                THEN Cells(last.before.elems, 0, r) \o Cells(last.before.elems, r + 1, n)
                ELSE last.before.elems

\* C9: replaceAt(index, item) differs from the receiver only at the
\* resolved index when it is in range, and has the receiver's elements and
\* size otherwise.
C9_ReplaceAt ==
    Called("replaceAt") =>
        LET n == Size(last.before)
            r == Resolved(n, last.i)
        IN  last.out.elems =
                IF InRange(n, r)
                THEN [last.before.elems EXCEPT ![r + 1] = last.items[1]]
                ELSE last.before.elems

\* C10: updateAt(index, f) holds f(old) at the resolved index when it is in
\* range, whatever the old element, and the receiver's elements otherwise.
C10_UpdateAt ==
    (Called("updateAt") /\ last.f \in Fns) =>
        LET n == Size(last.before)
            r == Resolved(n, last.i)
        IN  IF InRange(n, r)
            THEN last.before.elems[r + 1] # Undef
                   => last.out.elems = [last.before.elems EXCEPT
                                           ![r + 1] = Apply(last.f, @)]
            ELSE last.out.elems = last.before.elems

\* C11: swap(i, j) returns the receiver's elements with those at the
\* resolved indices exchanged when both lie in [0, n), and exactly the
\* receiver's element sequence when either lies outside (>= n or < 0).
C11_Swap ==
    Called("swap") =>
        LET n  == Size(last.before)
            r1 == Resolved(n, last.i)
            r2 == Resolved(n, last.j)
        IN  last.out.elems =
                IF InRange(n, r1) /\ InRange(n, r2)
                THEN [last.before.elems EXCEPT
                         ![r1 + 1] = last.before.elems[r2 + 1],
                         ![r2 + 1] = last.before.elems[r1 + 1]]
                ELSE last.before.elems

\* number of cells of s that hold v
Occurrences(s, v) == Cardinality({k \in 1..Len(s) : s[k] = v})

\* s and t hold the same elements the same number of times
Permutation(s, t) ==
    /\ Len(s) = Len(t)
    /\ \A v \in {s[k] : k \in 1..Len(s)} \cup {t[k] : k \in 1..Len(t)} :
          Occurrences(s, v) = Occurrences(t, v)

\* s without its cell r (0-based)
Without(s, r) == Cells(s, 0, r) \o Cells(s, r + 1, Len(s))

\* s with v put in front of its cell t (0-based)
InsertedAt(s, t, v) == Cells(s, 0, t) \o <<v>> \o Cells(s, t, Len(s))

C13_MoveLandsAtTo ==
    Called("move") =>
        LET n    == Size(last.before)
            from == Resolved(n, last.i)
            to   == Resolved(n, last.j)
        IN  (InRange(n, from) /\ InRange(n, to))
               => last.out.elems[to + 1] = last.before.elems[from + 1]

\* the step a call of range ran with
StepOf(step) == IF step = Omitted THEN 1 ELSE step

\* from, from + s, from + 2s, ... as long as the value is <= top
Progression(from, top, s) ==
    [k \in 1..(IF from > top THEN 0 ELSE (top - from) \div s + 1)
        |-> from + (k - 1) * s]

\* C14: range(from, to, step) with step > 0 returns exactly the values
\* from, from + step, ... that are <= to, in increasing order, in every
\* List.range of the repository.
C14_RangeInclusive ==
    (Called("range") /\ StepOf(last.items[1]) > 0)
        => /\ last.kind = "new"
           /\ last.out.elems = Progression(last.i, last.j, StepOf(last.items[1]))

\* C14 as amended: with step > 0, part_000's range returns the values
\* from, from + step, ... that are <= to (to included when reached) and
\* part_001's range those that are < to (to excluded).
C14_RangeBounds ==
    (Called("range") /\ StepOf(last.items[1]) > 0)
        => /\ last.kind = "new"
           /\ last.out.elems =
                Progression(last.i,
                            IF impl = "part_000" THEN last.j ELSE last.j - 1,
                            StepOf(last.items[1]))

\* part_001's range(0, 4, 2) stopped before its upper bound
C14_Witness ==
    /\ Called("range")
    /\ impl = "part_001"
    /\ last.i = 0 /\ last.j = 4 /\ last.items = <<2>>
    /\ last.out.elems = <<0, 2>>

\* C15: range(from, to, step) with step <= 0 raises an error for every from
\* and to and returns no list, not even a partial one.
C15_RangeStep ==
    (Called("range") /\ StepOf(last.items[1]) <= 0)
        => /\ last.kind = "error"
           /\ last.out = Undef
           /\ heap = <<>>

\* range(0, 4, 0) raised and bound no list
C15_Witness ==
    /\ Called("range")
    /\ last.i = 0 /\ last.j = 4 /\ last.items = <<0>>
    /\ last.kind = "error"
    /\ heap = <<>>

\* the modelled methods whose callback or predicate is mandatory
CallbackOps == {"each", "filter", "some", "groupBy", "dropWhile", "takeWhile",
                "updateAt"}

\* C16: a method whose callback or predicate is mandatory raises an error
\* when it is called with a non-function, for every receiver, the empty
\* list included, and returns no result.
C16_NonFunctionThrows ==
    (detail /\ last.op \in CallbackOps /\ last.f = "notFunction")
        => last.kind = "error" /\ last.out = Undef

\* C17: drop(count) raises an error when count <= 0 and for count > 0
\* returns exactly the receiver's elements at indices count .. n-1, in
\* order (the empty list when count >= n).
C17_Drop ==
    Called("drop") =>
        IF last.i <= 0 THEN last.kind = "error"
        ELSE /\ last.kind = "new"
             /\ last.out.elems = Cells(last.before.elems, last.i, Size(last.before))

\* drop(1) on a list of two elements returned the second one alone
C17_Witness ==
    /\ Called("drop")
    /\ last.i = 1
    /\ Size(last.before) = 2
    /\ last.out.elems = <<last.before.elems[2]>>

\* C18: take(count) raises no error and returns the prefix of the receiver
\* whose length is count clamped into [0, n]; no elements when count <= 0.
C18_Take ==
    Called("take") =>
        /\ last.kind = "new"
        /\ last.out.elems = Cells(last.before.elems, 0,
                                  Min(Max(last.i, 0), Size(last.before)))

\* C19: sort returns a list of the receiver's size whose elements are a
\* permutation of the receiver's elements, for every comparator and for none.
C19_SortPermutation ==
    Called("sort") =>
        /\ last.kind = "new"
        /\ Size(last.out) = Size(last.before)
        /\ Permutation(last.out.elems, last.before.elems)

\* a sort with a comparator reordered a list of four with a repeated element
C19_Witness ==
    /\ Called("sort")
    /\ last.f = "asc"
    /\ last.before.elems = <<10, 2, 0 - 2, 2>>
    /\ last.out.elems = <<0 - 2, 2, 2, 10>>

\* C20: on a list of integers, sort() with no comparator returns the
\* elements in non-decreasing numeric order, and sort(cmp) with a consistent
\* total preorder cmp returns a sequence in which no element is preceded by
\* one that cmp places strictly after it.
C20_SortOrder ==
    (/\ Called("sort")
     /\ last.f # "alwaysLess"
     /\ \A k \in 1..Size(last.before) : last.before.elems[k] # Undef)
        => \A i \in 1..Size(last.out), j \in 1..Size(last.out) :
              i < j => IF last.f = "none"
                       THEN last.out.elems[i] <= last.out.elems[j]
                       ELSE Compare(last.f, last.out.elems[i], last.out.elems[j]) <= 0

\* list.sort(compareFn) of the class the program imports, for a consistent
\* comparator
SortOf(this, compareFn) ==
    IF impl = "part_000" THEN P0_sort(this, compareFn).ret
    ELSE P1_sort(this, compareFn, [k \in 1..Size(this) |-> k]).ret

\* C21: for every list and every comparator that is a consistent total
\* preorder, or none, list.sort(cmp).sort(cmp) has exactly the element
\* sequence of list.sort(cmp).
C21_SortIdempotent ==
    (Called("sort") /\ last.f # "alwaysLess")
        => SortOf(last.out, last.f).elems = last.out.elems

\* the values held by a sequence
Values(s) == {s[k] : k \in 1..Len(s)}

\* the 1-based position of the first cell of s that holds v
FirstIndex(s, v) == CHOOSE k \in 1..Len(s) : s[k] = v /\ \A m \in 1..(k - 1) : s[m] # v

\* o holds each value of s exactly once, ordered by first occurrence in s
FirstOccurrences(o, s) ==
    /\ Values(o) = Values(s)
    /\ \A i \in 1..Len(o), j \in 1..Len(o) :
          i < j => /\ o[i] # o[j]
                   /\ FirstIndex(s, o[i]) < FirstIndex(s, o[j])

\* list.unique() of the class the program imports
UniqueOf(this) ==
    IF impl = "part_000" THEN P0_unique(this).ret ELSE P1_unique(this).ret

\* C22: unique() returns each distinct value of the receiver exactly once,
\* ordered by first occurrence; unique of the result is the result; and
\* union(other) is the first occurrences of the receiver's elements followed
\* by other's, as concat(other).unique() is.
C22_Unique ==
    /\ Called("unique")
          => /\ last.kind = "new"
             /\ FirstOccurrences(last.out.elems, last.before.elems)
             /\ UniqueOf(last.out).elems = last.out.elems
    /\ Called("union")
          => /\ last.kind = "new"
             /\ FirstOccurrences(last.out.elems, last.before.elems \o last.items)

\* unique() dropped the repeats of a list whose second value first occurs
\* between two occurrences of the first
C22_Witness ==
    /\ Called("unique")
    /\ last.before.elems = <<1, 0, 1, 0>>
    /\ last.out.elems = <<1, 0>>

\* C23: a.intersection(b) holds exactly the values that occur in both a and
\* b, each once, ordered by first occurrence in a, and b is left unchanged.
C23_Intersection ==
    Called("intersection") =>
        LET a == last.before.elems
            o == last.out.elems
        IN  /\ last.kind = "new"
            /\ Values(o) = Values(a) \cap Values(last.items)
            /\ \A i \in 1..Len(o), j \in 1..Len(o) :
                  i < j => /\ o[i] # o[j]
                           /\ FirstIndex(a, o[i]) < FirstIndex(a, o[j])
            /\ Len(heap) = 3
            /\ heap[3].elems = last.items

\* two lists with repeated values on both sides were intersected
C23_Witness ==
    /\ Called("intersection")
    /\ last.before.elems = <<1, 0, 1, 0>>
    /\ last.items = <<0, 0>>
    /\ last.out.elems = <<0>>

\* C24: for every outcome of the random source, shuffle() returns a list of
\* the receiver's size with the receiver's multiset of elements, and the
\* receiver's element order is unchanged.
C24_Shuffle ==
    Called("shuffle") =>
        /\ last.kind = "new"
        /\ Size(last.out) = Size(last.before)
        /\ Permutation(last.out.elems, last.before.elems)
        /\ heap[1].elems = last.before.elems

\* a shuffle moved the last of four elements to the front
C24_Witness ==
    /\ Called("shuffle")
    /\ last.before.elems = <<0, 0, 0, 1>>
    /\ last.out.elems = <<1, 0, 0, 0>>
    /\ heap[1].elems = <<0, 0, 0, 1>>

RECURSIVE Flattened(_)
\* the groups of a list of groups, one after the other
Flattened(groups) ==
    IF groups = <<>> THEN <<>> ELSE Head(groups) \o Flattened(Tail(groups))

\* C25: chunk(size) raises an error when size <= 0; for size > 0 it returns
\* ceil(n / size) groups, each but possibly the last of exactly size
\* elements, none empty, whose concatenation in order is the receiver's
\* element sequence.
C25_Chunk ==
    Called("chunk") =>
        IF last.i <= 0 THEN last.kind = "error"
        ELSE LET n      == Size(last.before)
                 groups == last.out.elems
             IN  /\ last.kind = "new"
                 /\ Len(groups) = (n + last.i - 1) \div last.i
                 /\ \A k \in 1..Len(groups) :
                       /\ groups[k] # <<>>
                       /\ Len(groups[k]) <= last.i
                       /\ k < Len(groups) => Len(groups[k]) = last.i
                 /\ Flattened(groups) = last.before.elems

\* chunk(3) split a list of four into a group of three and a group of one
C25_Witness ==
    /\ Called("chunk")
    /\ last.i = 3
    /\ Size(last.before) = 4
    /\ Len(last.out.elems) = 2
    /\ Len(last.out.elems[1]) = 3
    /\ Len(last.out.elems[2]) = 1

\* C26: when the resolved index r satisfies 0 <= r <= n, insertAt(index,
\* item) returns a list of size n + 1 with item at position r, the
\* receiver's elements 0..r-1 before it and r..n-1 after it (r = n appends).
C26_InsertAt ==
    Called("insertAt") =>
        LET n == Size(last.before)
            r == Resolved(n, last.i)
        IN  (r >= 0 /\ r <= n)
               => /\ last.kind = "new"
                  /\ Size(last.out) = n + 1
                  /\ last.out.elems = InsertedAt(last.before.elems, r, last.items[1])

\* insertAt(-1, item) put the item in front of the last of three elements
C26_Witness ==
    /\ Called("insertAt")
    /\ last.i = 0 - 1
    /\ Size(last.before) = 3
    /\ last.out.elems = <<last.before.elems[1], last.before.elems[2],
                          last.items[1], last.before.elems[3]>>

\* the length of the longest prefix of s all of whose elements satisfy p
PrefixLength(s, p) ==
    CHOOSE k \in 0..Len(s) :
        /\ \A m \in 1..k : Holds(p, s[m])
        /\ k < Len(s) => ~Holds(p, s[k + 1])

\* takeWhile(p).concat(dropWhile(p)) of the class the program imports
TakeThenDrop(this, p) ==
    IF impl = "part_000"
    THEN P0_concat(P0_takeWhile(this, p).ret, <<P0_dropWhile(this, p).ret>>).ret
    ELSE P1_concat(P1_takeWhile(this, p).ret, <<P1_dropWhile(this, p).ret>>).ret

\* C27: takeWhile(p) is the longest prefix of the receiver whose elements
\* all satisfy p, dropWhile(p) is the suffix that starts at the first
\* element failing p, and takeWhile(p).concat(dropWhile(p)) has the
\* receiver's element sequence.
C27_TakeDropWhile ==
    /\ (Called("takeWhile") /\ last.f # "notFunction")
          => /\ last.kind = "new"
             /\ last.out.elems = Cells(last.before.elems, 0,
                                       PrefixLength(last.before.elems, last.f))
             /\ TakeThenDrop(last.before, last.f).elems = last.before.elems
    /\ (Called("dropWhile") /\ last.f # "notFunction")
          => /\ last.kind = "new"
             /\ last.out.elems = Cells(last.before.elems,
                                       PrefixLength(last.before.elems, last.f),
                                       Size(last.before))

\* dropWhile kept an element that satisfies the predicate because it stands
\* behind one that does not
C27_Witness ==
    /\ Called("dropWhile")
    /\ last.f = "reader"
    /\ last.before.elems = <<1, 0, 1>>
    /\ last.out.elems = <<0, 1>>

\* the outermost call of sort has returned
QuickDone == last.op = "quicksort" /\ heap = <<>>

\* C28: the quicksort of part_000 terminates for every list and every
\* comparator, inconsistent ones included: each recursive call is made on a
\* list strictly shorter than its caller's, and the outermost call returns.
C28_QuicksortTerminates ==
    /\ []((last.op = "quicksort" /\ last.kind = "partition")
             => /\ last.items[2] < last.items[1]
                /\ last.items[3] < last.items[1])
    /\ <>QuickDone

\* the sort of four elements under the non-transitive comparator returned,
\* after more than one partition, what the method returns
C28_Witness ==
    /\ QuickDone
    /\ last.f = "cyclic"
    /\ last.before.elems = <<10, 2, 0 - 2, 2>>
    /\ last.i >= 5
    /\ last.out.elems = P0_sort(last.before, last.f).ret.elems

\* C29: the quicksort of part_000 is not stable: under a comparator that is
\* a consistent preorder, an element that compares equal to the pivot,
\* differs from it and precedes it in the input stands behind it in the
\* output, so their relative order is reversed.
C29_QuicksortNotStable ==
    (/\ Called("sort")
     /\ impl = "part_000"
     /\ last.f \in {"asc", "desc", "byAbs"}
     /\ Size(last.before) >= 2
     /\ \A k \in 1..Size(last.before) : last.before.elems[k] # Undef)
        => LET a     == last.before.elems
               p     == Len(a) \div 2 + 1
               o     == last.out.elems
           IN  \A k \in 1..(p - 1) :
                  (Compare(last.f, a[k], a[p]) = 0 /\ a[k] # a[p])
                     => FirstIndex(o, a[p]) < FirstIndex(o, a[k])

\* 2 and -2 compare equal by absolute value; 2 came first in the input and
\* comes last in the output
C29_Witness ==
    /\ Called("sort")
    /\ impl = "part_000"
    /\ last.f = "byAbs"
    /\ last.before.elems = <<2, 0 - 2>>
    /\ last.out.elems = <<0 - 2, 2>>

\* slice(start, end) of the class the program does not import, on a list
\* with the element sequence elems
OtherSlice(elems, start, end) ==
    IF impl = "part_000" THEN P1_slice(P1_of(elems), start, end).ret
    ELSE P0_slice(P0_of(elems), start, end).ret

\* an argument that is omitted or an integer >= -n
AtLeastMinusSize(n, a) == a = Omitted \/ a >= 0 - n

\* C30: for start and end omitted or >= -n, the loop of part_000's slice and
\* the native slice of part_001 return the same element sequence on lists
\* with the same elements.
C30_SlicesAgree ==
    (/\ Called("slice")
     /\ AtLeastMinusSize(Size(last.before), last.i)
     /\ AtLeastMinusSize(Size(last.before), last.j))
        => /\ last.kind = "new"
           /\ last.out.elems = OtherSlice(last.before.elems, last.i, last.j).elems

\* slice(-2, 3) of a list of two elements, the end past the list, returned
\* both elements
C30_Witness ==
    /\ Called("slice")
    /\ last.i = 0 - 2 /\ last.j = 3
    /\ Size(last.before) = 2
    /\ last.out.elems = last.before.elems

====
